---- MODULE Spec2Model ----
(***************************************************************************)
(* yt-decrypt: extraction of the decipher and n-transform functions from a *)
(* player bundle (src/sig.py), driven by extract_decode_script             *)
(* (src/lib.py).                                                           *)
(*                                                                         *)
(* A text is a sequence of lexical chunks, each chunk a string holding the *)
(* JavaScript source it stands for: the text the program sees is the       *)
(* concatenation of the chunks (Render).  A regular expression of sig.py   *)
(* is modelled by the chunk sequences it accepts, with re.search's         *)
(* leftmost match and the lazy '.*?' spans of the source.                  *)
(***************************************************************************)
EXTENDS Naturals, Sequences, FiniteSets

VARIABLES
    input_str,          \* the argument of extract_decode_script
    pc,                 \* position inside extract_decode_script
    name,               \* etf.name  (lib.py:26)
    code,               \* etf.code  (lib.py:27)
    decipher_script,    \* lib.py:33
    n_transform_script, \* lib.py:39
    result,             \* the (success, result_or_error) pair returned
    stages,             \* the extractors called so far, in call order
    \* YouTubeDecryptor (standalone_decryptor.py:96-107)
    player_url,         \* self.player_url
    player_code,        \* self.player_code
    decrypt_script,     \* self.decrypt_script
    info_url,           \* the player URL of the last get_video_info that returned
    last,               \* the last method called, and what it returned
    \* JavaScriptExecutor.execute_js (standalone_decryptor.py:30-62)
    node_available,     \* self.node_available
    js_pc,              \* position inside execute_js
    js_code,            \* the argument of the running call
    temp_file,          \* the local temp_file
    returncode,         \* result.returncode
    created,            \* the file the running call created
    files,              \* the temporary files on disk
    calls               \* the number of execute_js calls made

extract_vars == <<input_str, pc, name, code, decipher_script,
                  n_transform_script, result, stages>>
decryptor_vars == <<player_url, player_code, decrypt_script, info_url, last>>
executor_vars == <<node_available, js_pc, js_code, temp_file, returncode,
                   created, files, calls>>
vars == <<extract_vars, decryptor_vars, executor_vars>>

\* None, and "no file"
None == "None"
NoFile == 0

----------------------------------------------------------------------------
(* Bounds of the model *)

\* statements of a generated bundle
MaxStmts == 4
\* statements inside the body of a generated n-transform function
MaxBody == 3
\* the size ceiling of spec.md section 5, in chunks (the code has none)
SizeCeiling == 20
\* execute_js calls made in one run
MaxCalls == 3
\* execute_js calls made through one YouTubeDecryptor
MaxExecutions == 2
\* formats of one video
MaxFormats == 2

----------------------------------------------------------------------------
(* Lexical chunks *)

SEMI  == ";"
COMMA == ","
CLOSE == "}"

\* indirection-table declarations
TBL_XX == "var XX=\"a.b.c\".split(\".\")"
ARR_q  == "var q=[\"x\",\"y\"]"
\* a table that bears the name the decipher is bound under
TBL_DD == "var DisTubeDecipherFunc=\"a.b.c\".split(\".\")"

\* table-driven decipher driver and its three-method action object
SIGF    == "function(a){a=a[XX[1]](XX[2]);Ob[XX[3]](a,1);Ob[XX[4]](a,2);return a[XX[5]](XX[6])}"
OPEN_Ob == "var Ob={"
\* an action object that bears the name the n-transform is bound under
OPEN_DN == "var DisTubeNTransformFunc={"
AE1     == "ab:function(a){a[XX[7]]()}"
AE2     == "cd:function(a,b){a[XX[8]](0,b)}"
AE3     == "ef:function(a,b){var c=a[0];a[0]=a[b%a[XX[9]]];a[b%a[XX[9]]]=c}"

\* legacy helper object and its four operations
OPEN_Xy == "var Xy={"
REV     == "ab:function(a){a.reverse()}"
SPLICE  == "cd:function(a,b){a.splice(0,b)}"
SWAP    == "ef:function(a,b){var c=a[0];a[0]=a[b%a.length];a[b%a.length]=c}"
SLICE   == "gh:function(a,b){return a.slice(b)}"

\* legacy decipher driver, and the same driver with table-indexed split/join
DEC  == "function(a){a=a.split(\"\");Xy[\"ab\"](a,1);Xy[\"cd\"](a,2);return a.join(\"\")}"
DECT == "function(a){a=a.split(XX[0]);Xy[\"ab\"](a,1);Xy[\"cd\"](a,2);return a.join(XX[0])}"

\* modern n-transform: head, tail, and the statements between them
NH   == "function(a){var b=a[XX[1]](XX[2]),c=[1,2]"
NT   == "try{c[0](c[1])}catch(d){return XX[3]+a}return b[XX[4]](XX[5])}"
G1   == "if(typeof a===\"undefined\")return a"
G2   == "if (typeof a === \"undefined\") return a"
G3   == "if(typeof a===XX[0])return a"
STMT == "c[0]=b"
\* guards that return another identifier than the parameter a
GB   == "if(typeof a===\"undefined\")return b"
GAB  == "if(typeof ab===\"undefined\")return ab"

\* legacy n-transform, plain and table-wrapped
NL  == "function(a){var b=a.split(\"\"),c=[1,2];c[0]=b;try{c[1]()}catch(d){return\"enhanced_except_AbC-\"+a}return Array.prototype.join.call(b,\"\")}"
NLT == "function(a){var b=a.split(a.slice(0,0)),c=[1,2];try{c[0]()}catch(d){return XX[3]+a}return b.join(XX[4])}"

\* table-wrapped legacy n-transform: head and tail, for a function that
\* holds statements between them; REST is what is left of GAB once the text
\* up to "return a" is taken away
NLTH == "function(a){var b=a.split(a.slice(0,0)),c=[1,2]"
NLTT == "try{c[0]()}catch(d){return XX[3]+a}return b.join(XX[4])}"
REST == "b"

\* unrelated JavaScript
JUNK == "var z=1"

----------------------------------------------------------------------------
(* Sequences *)

RECURSIVE Render(_)
\* the string a text stands for
Render(t) == IF t = <<>> THEN "" ELSE Head(t) \o Render(Tail(t))

RECURSIVE Flatten(_)
Flatten(ss) == IF ss = <<>> THEN <<>> ELSE Head(ss) \o Flatten(Tail(ss))

Min(S) == CHOOSE x \in S : \A y \in S : x <= y

\* t[i], or "" past the end of the text
At(t, i) == IF i >= 1 /\ i <= Len(t) THEN t[i] ELSE ""

----------------------------------------------------------------------------
(* Pattern library (sig.py:9-108).  A pattern is named by the constant that *)
(* holds it; Compiles says whether re.compile accepts its text.             *)

DECIPHER_REGEXP                 == "DECIPHER_REGEXP"
HELPER_REGEXP                   == "HELPER_REGEXP"
FUNCTION_TCE_REGEXP             == "FUNCTION_TCE_REGEXP"
N_TRANSFORM_REGEXP              == "N_TRANSFORM_REGEXP"
N_TRANSFORM_TCE_REGEXP          == "N_TRANSFORM_TCE_REGEXP"
TCE_GLOBAL_VARS_REGEXP          == "TCE_GLOBAL_VARS_REGEXP"
NEW_TCE_GLOBAL_VARS_REGEXP      == "NEW_TCE_GLOBAL_VARS_REGEXP"
TCE_SIGN_FUNCTION_REGEXP        == "TCE_SIGN_FUNCTION_REGEXP"
TCE_SIGN_FUNCTION_ACTION_REGEXP == "TCE_SIGN_FUNCTION_ACTION_REGEXP"
TCE_N_FUNCTION_REGEXP           == "TCE_N_FUNCTION_REGEXP"
REVERSE_PATTERN                 == "REVERSE_PATTERN"
SLICE_PATTERN                   == "SLICE_PATTERN"
SPLICE_PATTERN                  == "SPLICE_PATTERN"
SWAP_PATTERN                    == "SWAP_PATTERN"
FOR_PARAM_MATCHING              == "FOR_PARAM_MATCHING"

DECIPHER_FUNC_NAME    == "DisTubeDecipherFunc"
N_TRANSFORM_FUNC_NAME == "DisTubeNTransformFunc"

\* The text of the two patterns re.compile rejects:
\* N_TRANSFORM_REGEXP closes its last group before the ')' of join("") and
\* so has an unbalanced parenthesis (sig.py:49); TCE_GLOBAL_VARS_REGEXP
\* refers to group 5 before it is opened and to a group 6 it never opens
\* (sig.py:62-63).
PatternText(p) ==
    CASE p = N_TRANSFORM_REGEXP ->
           "function\\(\\s*(\\w+)\\s*\\)\\s*\\{var\\s*(\\w+)=(?:\\1\\.split\\(.*?\\)|String\\.prototype\\.split\\.call\\(\\1,.*?\\)),\\s*(\\w+)=(\\[.*?\\]);\\s*\\3\\[\\d+\\](.*?try)(\\{.*?\\})catch\\(\\s*(\\w+)\\s*\\)\\s*\\{\\s*return\\\"[\\w-]+([A-z0-9-]+)\\\"\\s*\\+\\s*\\1\\s*}\\s*return\\s*(\\2\\.join\\(\\\"\\\")|Array\\.prototype\\.join\\.call\\(\\2,.*?\\))};"
      [] p = TCE_GLOBAL_VARS_REGEXP ->
           "(?:^|[;,])\\s*(var\\s+([\\w$]+)\\s*=\\s*(?:([\\\"'])(?:\\\\.|[^\\\\])*?\\3\\s*\\.\\s*split\\(([\\\"'])(?:\\\\.|[^\\\\])*?\\5\\)|\\[\\s*(?:([\\\"'])(?:\\\\.|[^\\\\])*?\\6\\s*,?\\s*)+\\]))(?=\\s*[,;])"
      [] OTHER -> p

Compiles(p) == p \notin {N_TRANSFORM_REGEXP, TCE_GLOBAL_VARS_REGEXP}

\* build_regex: the compiled pattern, or ValueError("Invalid regex pattern: ...")
build_regex(p) ==
    IF Compiles(p)
    THEN [ok |-> TRUE, re |-> p, error |-> ""]
    ELSE [ok |-> FALSE, re |-> p,
          error |-> "Invalid regex pattern: " \o PatternText(p)]

\* chunks each fixed sub-pattern accepts
TableDecls    == {TBL_XX, ARR_q, TBL_DD}
Opens         == {OPEN_Ob, OPEN_Xy, OPEN_DN}
ReverseParts  == {REV}
SliceParts    == {SLICE}
SpliceParts   == {SPLICE}
SwapParts     == {SWAP}
HelperEntries == ReverseParts \cup SliceParts \cup SpliceParts \cup SwapParts
\* "key : function(...) { block }" with blocks nested at most once
ActionEntries == HelperEntries \cup {AE1, AE2, AE3}

\* the variable a table declaration declares (group 'varname')
VarName(c) ==
    CASE c = TBL_XX -> "XX" [] c = ARR_q -> "q"
      [] c = TBL_DD -> "DisTubeDecipherFunc" [] OTHER -> ""
\* the table a guard's typeof test indexes, "" for the "undefined" literal
GuardTable(c) == CASE c = G3 -> "XX" [] OTHER -> ""

RECURSIVE EntriesEnd(_, _)
\* the index after the run "(entry ,?)*" of helper entries that starts at i
EntriesEnd(t, i) ==
    IF At(t, i) \in HelperEntries
    THEN EntriesEnd(t, IF At(t, i + 1) = COMMA THEN i + 2 ELSE i + 1)
    ELSE i

\* the least j >= i with t[j] = a and t[j+1] = b, or 0: a lazy '.*?' span
\* followed by the two chunks
LazyTo(t, i, a, b) ==
    LET js == {j \in i..Len(t) : t[j] = a /\ At(t, j + 1) = b}
    IN  IF js = {} THEN 0 ELSE Min(js)

\* chunks that hold "function(<word>)", a function head with one parameter,
\* which is what FOR_PARAM_MATCHING matches wherever it occurs; the other
\* function heads of the catalogue have two parameters
ParamChunks == {SIGF, AE1, REV, DEC, DECT, NH, NL, NLT, NLTH}
\* group(0) and group(1) of the match of FOR_PARAM_MATCHING inside chunk c
ParamMatchText(c) == IF c \in ParamChunks THEN "function(a)" ELSE ""
ParamName(c) == IF c \in ParamChunks THEN "a" ELSE ""

\* PATTERN_PREFIX (sig.py:102) before an entry of `parts`: the match starts
\* at the start of the text or at the ',' before the entry
PrefixedEnd(parts, t, i) ==
    IF i = 1 /\ t[1] \in parts THEN 1
    ELSE IF t[i] = COMMA /\ At(t, i + 1) \in parts THEN i + 1
    ELSE 0

\* The last index of the match of pattern p that starts at index i of t, or
\* 0 when p does not match there.  Every pattern but FOR_PARAM_MATCHING
\* matches whole chunks; for FOR_PARAM_MATCHING the span is the chunk the
\* match lies in, and ParamMatchText and ParamName give its text and group.
\* 0 when p does not match there.
MatchEnd(p, t, i) ==
    CASE p = NEW_TCE_GLOBAL_VARS_REGEXP ->
           IF t[i] \in TableDecls THEN i ELSE 0
      [] p = TCE_SIGN_FUNCTION_REGEXP ->
           IF t[i] = SIGF /\ At(t, i + 1) = SEMI THEN i + 1 ELSE 0
      [] p = TCE_SIGN_FUNCTION_ACTION_REGEXP ->
           IF /\ t[i] \in Opens
              /\ At(t, i + 1) \in ActionEntries /\ At(t, i + 2) = COMMA
              /\ At(t, i + 3) \in ActionEntries /\ At(t, i + 4) = COMMA
              /\ At(t, i + 5) \in ActionEntries
              /\ At(t, i + 6) = CLOSE /\ At(t, i + 7) = SEMI
           THEN i + 7 ELSE 0
      [] p = HELPER_REGEXP ->
           LET e == EntriesEnd(t, i + 1)
           IN  IF /\ t[i] \in Opens /\ e > i + 1
                  /\ At(t, e) = CLOSE /\ At(t, e + 1) = SEMI
               THEN e + 1 ELSE 0
      [] p = DECIPHER_REGEXP ->
           IF t[i] = DEC THEN i ELSE 0
      [] p = FUNCTION_TCE_REGEXP ->
           IF t[i] \in {DEC, DECT} THEN i ELSE 0
      [] p = TCE_N_FUNCTION_REGEXP ->
           IF t[i] = NH /\ At(t, i + 1) = SEMI
           THEN LET j == LazyTo(t, i + 2, NT, SEMI)
                IN  IF j = 0 THEN 0 ELSE j + 1
           ELSE 0
      [] p = N_TRANSFORM_TCE_REGEXP ->
           IF t[i] = NLT /\ At(t, i + 1) = SEMI THEN i + 1
           ELSE IF t[i] = NLTH /\ At(t, i + 1) = SEMI
           THEN LET j == LazyTo(t, i + 2, NLTT, SEMI)
                IN  IF j = 0 THEN 0 ELSE j + 1
           ELSE 0
      [] p = FOR_PARAM_MATCHING ->
           IF t[i] \in ParamChunks THEN i ELSE 0
      [] p = REVERSE_PATTERN -> PrefixedEnd(ReverseParts, t, i)
      [] p = SLICE_PATTERN -> PrefixedEnd(SliceParts, t, i)
      [] p = SPLICE_PATTERN -> PrefixedEnd(SpliceParts, t, i)
      [] p = SWAP_PATTERN -> PrefixedEnd(SwapParts, t, i)
      [] OTHER -> 0

\* pattern.search(text): the leftmost match, as the span it covers
search(p, t) ==
    LET starts == {i \in 1..Len(t) : MatchEnd(p, t, i) # 0}
    IN  IF starts = {}
        THEN [found |-> FALSE, start |-> 0, end |-> 0]
        ELSE [found |-> TRUE, start |-> Min(starts),
              end |-> MatchEnd(p, t, Min(starts))]

\* match.group(0); the empty text stands for "no match"
group0(t, m) == IF m.found THEN SubSeq(t, m.start, m.end) ELSE <<>>

RECURSIVE replace(_, _, _)
\* str.replace(old, new): every occurrence, left to right, without overlap
replace(t, old, new) ==
    IF Len(t) < Len(old) \/ old = <<>> THEN t
    ELSE IF SubSeq(t, 1, Len(old)) = old
         THEN new \o replace(SubSeq(t, Len(old) + 1, Len(t)), old, new)
         ELSE <<Head(t)>> \o replace(Tail(t), old, new)

----------------------------------------------------------------------------
(* Stage extractors (sig.py:125-279).  Each returns a record: ok tells     *)
(* whether the function returned (value) or raised ValueError (error).     *)

Raise(msg) == [ok |-> FALSE, value |-> <<>>, error |-> msg]
Return(v)  == [ok |-> TRUE, value |-> v, error |-> ""]

NoCaptures(p)  == "No captures found for input using regex '" \o p \o "'"
NoFirstGroup(p)  ==
    "No first capture group found using regex '" \o p \o "'"
NoSecondGroup(p) ==
    "No second capture group found using regex '" \o p \o "'"
NoThirdGroup(p)  ==
    "No third capture group found using regex '" \o p \o "'"

\* sig.py:125-141
extract_tce_func(body) ==
    LET tce_variable_matcher == build_regex(NEW_TCE_GLOBAL_VARS_REGEXP)
        match == search(tce_variable_matcher.re, body)
        c     == group0(body, match)
        varname == VarName(body[match.start])
    IN  IF ~tce_variable_matcher.ok
        THEN [ok |-> FALSE, name |-> "", code |-> <<>>,
              error |-> tce_variable_matcher.error]
        ELSE IF ~match.found
        THEN [ok |-> FALSE, name |-> "", code |-> <<>>,
              error |-> NoCaptures(NEW_TCE_GLOBAL_VARS_REGEXP)]
        ELSE IF c = <<>>
        THEN [ok |-> FALSE, name |-> "", code |-> <<>>,
              error |-> "No capture group named 'code' found using regex 'NEW_TCE_GLOBAL_VARS_REGEXP'"]
        ELSE IF varname = ""
        THEN [ok |-> FALSE, name |-> "", code |-> <<>>,
              error |-> "No capture group named 'varname' found using regex 'NEW_TCE_GLOBAL_VARS_REGEXP'"]
        ELSE [ok |-> TRUE, name |-> varname, code |-> c, error |-> ""]

\* the operation patterns without the '^' of PATTERN_PREFIX: an entry is
\* found only after a ','
AnyPatternMatches_after_comma(action_body) ==
    \E i \in 2..Len(action_body) :
        action_body[i] \in HelperEntries /\ action_body[i - 1] = COMMA

\* any(pattern.search(action_body) for pattern in pattern_regexes)
\* (sig.py:173-180)
AnyPatternMatches(action_body) ==
    \E p \in {REVERSE_PATTERN, SLICE_PATTERN, SPLICE_PATTERN, SWAP_PATTERN} :
        search(build_regex(p).re, action_body).found

\* sig.py:199-209: the global declarations and the assembled legacy fragment
DecipherLegacyTail(body, helper_object, decipher_func, is_tce) ==
    LET tce_vars_matcher == build_regex(TCE_GLOBAL_VARS_REGEXP)
        tce_vars_match == search(tce_vars_matcher.re, body)
        tce_vars == IF is_tce /\ tce_vars_match.found
                    THEN group0(body, tce_vars_match) ELSE <<>>
    IN  IF is_tce /\ ~tce_vars_matcher.ok
        THEN Raise(tce_vars_matcher.error)
        ELSE IF is_tce /\ tce_vars_match.found /\ tce_vars = <<>>
        THEN Raise(NoSecondGroup(TCE_GLOBAL_VARS_REGEXP))
        ELSE Return(tce_vars \o <<";">> \o helper_object
                    \o <<"\nvar ", DECIPHER_FUNC_NAME, "=">>
                    \o decipher_func \o <<";">>)

\* sig.py:183-197: the driver, legacy shape first, table-wrapped shape second
DecipherDriver(body, helper_object) ==
    LET func_match == search(build_regex(DECIPHER_REGEXP).re, body)
        tce_func_match == search(build_regex(FUNCTION_TCE_REGEXP).re, body)
    IN  IF func_match.found
        THEN DecipherLegacyTail(body, helper_object,
                                group0(body, func_match), FALSE)
        ELSE IF ~tce_func_match.found
        THEN Raise(NoCaptures(FUNCTION_TCE_REGEXP))
        ELSE DecipherLegacyTail(body, helper_object,
                                group0(body, tce_func_match), TRUE)

\* extract_decipher_func with the helper object required before the fast
\* path is tried
extract_decipher_func_helper_first(body, c) ==
    LET sig_function_match ==
            search(build_regex(TCE_SIGN_FUNCTION_REGEXP).re, body)
        sig_function_actions_match ==
            search(build_regex(TCE_SIGN_FUNCTION_ACTION_REGEXP).re, body)
        helper_match == search(build_regex(HELPER_REGEXP).re, body)
        helper_object == group0(body, helper_match)
        action_body == SubSeq(body, helper_match.start + 1,
                              helper_match.end - 2)
    IN  IF ~helper_match.found
        THEN Raise(NoCaptures(HELPER_REGEXP))
        ELSE IF sig_function_match.found /\ sig_function_actions_match.found
        THEN Return(<<"var ", DECIPHER_FUNC_NAME, "=">>
                    \o group0(body, sig_function_match)
                    \o group0(body, sig_function_actions_match)
                    \o c \o <<";">>)
        ELSE IF ~AnyPatternMatches(action_body)
        THEN Raise("No captures found for input using regex 'PATTERN_REGEX_SET'")
        ELSE DecipherDriver(body, helper_object)

\* sig.py:143-209
extract_decipher_func(body, c) ==
    LET sig_function_match ==
            search(build_regex(TCE_SIGN_FUNCTION_REGEXP).re, body)
        sig_function_actions_match ==
            search(build_regex(TCE_SIGN_FUNCTION_ACTION_REGEXP).re, body)
        helper_match == search(build_regex(HELPER_REGEXP).re, body)
        helper_object == group0(body, helper_match)
        \* group(2): the entries between the braces
        action_body == SubSeq(body, helper_match.start + 1,
                              helper_match.end - 2)
    IN  IF sig_function_match.found /\ sig_function_actions_match.found
        THEN Return(<<"var ", DECIPHER_FUNC_NAME, "=">>
                    \o group0(body, sig_function_match)
                    \o group0(body, sig_function_actions_match)
                    \o c \o <<";">>)
        ELSE IF ~helper_match.found
        THEN Raise(NoCaptures(HELPER_REGEXP))
        ELSE IF helper_object = <<>>
        THEN Raise(NoFirstGroup(HELPER_REGEXP))
        ELSE IF action_body = <<>>
        THEN Raise(NoThirdGroup(HELPER_REGEXP))
        ELSE IF ~AnyPatternMatches(action_body)
        THEN Raise("No captures found for input using regex 'PATTERN_REGEX_SET'")
        ELSE DecipherDriver(body, helper_object)

\* chunks the short-circuit pattern built for table `tce_name` accepts between
\* its two ';' (sig.py:223-226): the typeof test compares with "undefined",
\* 'undefined' or tce_name[k]
ShortCircuitGuards(tce_name) ==
    {g \in {G1, G2, G3} : GuardTable(g) \in {"", tce_name}}

\* short_circuit_pattern.search(n_function) (sig.py:228)
short_circuit_search(tce_name, n_function) ==
    LET starts == {i \in 1..Len(n_function) :
                      /\ n_function[i] = SEMI
                      /\ At(n_function, i + 1) \in ShortCircuitGuards(tce_name)
                      /\ At(n_function, i + 2) = SEMI}
    IN  IF starts = {}
        THEN [found |-> FALSE, start |-> 0, end |-> 0]
        ELSE [found |-> TRUE, start |-> Min(starts), end |-> Min(starts) + 2]

\* sig.py:222-230: the guard found first is replaced, wherever its text occurs
remove_short_circuit(tce_name, n_function) ==
    LET short_circuit_match == short_circuit_search(tce_name, n_function)
    IN  IF short_circuit_match.found
        THEN replace(n_function, group0(n_function, short_circuit_match),
                     <<";">>)
        ELSE n_function

\* chunks at which cleaned_function_pattern can start (sig.py:264-266):
\* "if", blanks, "(typeof", blanks, an operand, blanks, "==="
GuardStarts == {G1, G2, G3, GB, GAB}
\* chunks that hold ")return <param>" at their end: a match that reaches one
\* of them ends with it, and takes the ';' after it
LegacyGuards(param_name) ==
    IF param_name = "a" THEN {G1, G3} ELSE {}
\* chunks that hold ")return <param>" before their end: the pattern has no
\* word boundary after the parameter, so a match ends inside them
LegacyGuardPrefixes(param_name) ==
    IF param_name = "a" THEN {GAB} ELSE {}

RECURSIVE clean_function(_, _)
\* cleaned_function_pattern.sub("", n_function) (sig.py:267): from each
\* chunk the pattern can start at, the lazy '.*?' runs to the first
\* ")return <param>" at or after it, and the whole span goes
clean_function(param_name, f) ==
    IF f = <<>> THEN <<>>
    ELSE IF Head(f) \in GuardStarts
    THEN LET ends == {j \in 1..Len(f) :
                        f[j] \in LegacyGuards(param_name)
                                   \cup LegacyGuardPrefixes(param_name)}
             j == IF ends = {} THEN 0 ELSE Min(ends)
         IN  IF j = 0
             THEN <<Head(f)>> \o clean_function(param_name, Tail(f))
             ELSE IF f[j] \in LegacyGuardPrefixes(param_name)
             THEN <<REST>> \o
                  clean_function(param_name, SubSeq(f, j + 1, Len(f)))
             ELSE clean_function(param_name,
                      IF At(f, j + 1) = SEMI
                      THEN SubSeq(f, j + 2, Len(f))
                      ELSE SubSeq(f, j + 1, Len(f)))
    ELSE <<Head(f)>> \o clean_function(param_name, Tail(f))

\* sig.py:253-279: parameter, guard removal, global declarations, assembly
NTransformLegacyTail(body, n_function, is_tce) ==
    LET param_match == search(build_regex(FOR_PARAM_MATCHING).re, n_function)
        param_name == ParamName(n_function[param_match.start])
        cleaned_function == clean_function(param_name, n_function)
        tce_vars_matcher == build_regex(TCE_GLOBAL_VARS_REGEXP)
        tce_vars_match == search(tce_vars_matcher.re, body)
        tce_vars == IF is_tce /\ tce_vars_match.found
                    THEN group0(body, tce_vars_match) ELSE <<>>
    IN  IF ~param_match.found
        THEN Raise(NoCaptures(FOR_PARAM_MATCHING))
        ELSE IF param_name = ""
        THEN Raise(NoSecondGroup(FOR_PARAM_MATCHING))
        ELSE IF is_tce /\ ~tce_vars_matcher.ok
        THEN Raise(tce_vars_matcher.error)
        ELSE IF is_tce /\ tce_vars_match.found /\ tce_vars = <<>>
        THEN Raise(NoSecondGroup(TCE_GLOBAL_VARS_REGEXP))
        ELSE Return(tce_vars \o <<";var ", N_TRANSFORM_FUNC_NAME, "=">>
                    \o cleaned_function \o <<";">>)

\* sig.py:234-251: legacy shape first, table-wrapped legacy shape second
NTransformLegacy(body) ==
    LET n_matcher == build_regex(N_TRANSFORM_REGEXP)
        n_match == search(n_matcher.re, body)
        n_tce_match == search(build_regex(N_TRANSFORM_TCE_REGEXP).re, body)
    IN  IF ~n_matcher.ok
        THEN Raise(n_matcher.error)
        ELSE IF n_match.found
        THEN NTransformLegacyTail(body, group0(body, n_match), FALSE)
        ELSE IF ~n_tce_match.found
        THEN Raise(NoCaptures(N_TRANSFORM_TCE_REGEXP))
        ELSE IF group0(body, n_tce_match) = <<>>
        THEN Raise(NoFirstGroup(N_TRANSFORM_TCE_REGEXP))
        ELSE NTransformLegacyTail(body, group0(body, n_tce_match), TRUE)

\* sig.py:211-279
extract_n_transform_func(body, tce_name, c) ==
    LET n_function_match == search(build_regex(TCE_N_FUNCTION_REGEXP).re, body)
        n_function == group0(body, n_function_match)
    IN  IF n_function_match.found
        THEN IF n_function = <<>>
             THEN Raise(NoFirstGroup(TCE_N_FUNCTION_REGEXP))
             ELSE Return(<<"var ", N_TRANSFORM_FUNC_NAME, "=">>
                         \o remove_short_circuit(tce_name, n_function)
                         \o c \o <<";">>)
        ELSE NTransformLegacy(body)

----------------------------------------------------------------------------
(* Bundles the model runs extract_decode_script on *)

S_TBL  == <<TBL_XX, SEMI>>
S_ARR  == <<ARR_q, SEMI>>
S_SIG  == <<SIGF, SEMI>>
S_ACT  == <<OPEN_Ob, AE1, COMMA, AE2, COMMA, AE3, CLOSE, SEMI>>
S_H1   == <<OPEN_Xy, SLICE, CLOSE, SEMI>>
S_H2   == <<OPEN_Xy, REV, COMMA, SPLICE, CLOSE, SEMI>>
S_H3   == <<OPEN_Xy, REV, COMMA, SPLICE, COMMA, SWAP, CLOSE, SEMI>>
S_DEC  == <<DEC, SEMI>>
S_DECT == <<DECT, SEMI>>
S_N0   == <<NH, SEMI, NT, SEMI>>
S_N1   == <<NH, SEMI, G3, SEMI, NT, SEMI>>
S_NL   == <<NL, SEMI>>
S_NLT  == <<NLT, SEMI>>
S_JUNK == <<JUNK, SEMI>>

Statements == {S_TBL, S_ARR, S_SIG, S_ACT, S_H1, S_H2, S_H3, S_DEC, S_DECT,
               S_N0, S_N1, S_NL, S_NLT, S_JUNK}

\* every bundle of at most MaxStmts different statements, in any order
CascadeBundles ==
    {Flatten(ss) : ss \in UNION {
        {f \in [1..n -> Statements] :
            \A i, j \in 1..n : i # j => f[i] # f[j]} : n \in 0..MaxStmts}}

\* statements of an n-transform body: three guards and one plain statement
BodyItems == {<<G1, SEMI>>, <<G2, SEMI>>, <<G3, SEMI>>, <<STMT, SEMI>>}

\* a table (or a decoy array before it), the table-driven decipher pair and
\* a modern n-transform whose body holds at most MaxBody statements
GuardBundles ==
    {pre \o S_SIG \o S_ACT \o <<NH, SEMI>> \o Flatten(b) \o <<NT, SEMI>> :
        pre \in {S_TBL, S_ARR \o S_TBL},
        b \in UNION {[1..n -> BodyItems] : n \in 0..MaxBody}}

\* the table-driven decipher pair and a modern n-transform, where the table
\* or the action object bears a name the composite script binds
NamedBundles ==
    {tbl \o S_SIG \o <<open>> \o Tail(S_ACT) \o n :
        tbl \in {S_TBL, <<TBL_DD, SEMI>>}, open \in {OPEN_Ob, OPEN_DN},
        n \in {S_N0, S_N1}}

\* statements of a legacy n-transform body: guards that return the
\* parameter, guards that return another identifier, a plain statement
LegacyBodyItems == {<<G1, SEMI>>, <<G2, SEMI>>, <<G3, SEMI>>, <<GB, SEMI>>,
                    <<GAB, SEMI>>, <<STMT, SEMI>>}

\* a table, the table-driven decipher pair and a table-wrapped legacy
\* n-transform with at most MaxBody statements between head and tail
LegacyBundles ==
    {S_TBL \o S_SIG \o S_ACT \o <<NLTH, SEMI>> \o Flatten(b)
        \o <<NLTT, SEMI>> :
        b \in UNION {[1..n -> LegacyBodyItems] : n \in 0..MaxBody}}

Bundles ==
    CascadeBundles \cup GuardBundles \cup NamedBundles \cup LegacyBundles

\* what a caller may pass: None, a value that is no str, or a bundle
Inputs == {[kind |-> "None", body |-> <<>>], [kind |-> "bytes", body |-> <<>>]}
          \cup {[kind |-> "str", body |-> b] : b \in Bundles}

----------------------------------------------------------------------------
(* extract_decode_script (lib.py:5-46) *)

NotReturned == [returned |-> FALSE, success |-> FALSE, script |-> <<>>,
                error |-> ""]
\* return_error(msg) (lib.py:11-13)
return_error(msg) == [returned |-> TRUE, success |-> FALSE, script |-> <<>>,
                      error |-> msg]

\* YouTubeDecryptor.__init__ (standalone_decryptor.py:99-107); no call yet
DecryptorInit ==
    /\ player_url = None
    /\ player_code = None
    /\ decrypt_script = None
    /\ info_url = None
    /\ last = [op |-> "__init__", ok |-> TRUE, value |-> None,
               scripts |-> {}]

\* JavaScriptExecutor.__init__ (standalone_decryptor.py:19-28): `node
\* --version` ran or it did not; no execute_js call yet
ExecutorInit ==
    /\ node_available \in BOOLEAN
    /\ js_pc = "idle"
    /\ js_code = None
    /\ temp_file = NoFile
    /\ returncode = 0
    /\ created = NoFile
    /\ files = {}
    /\ calls = 0

Init ==
    /\ DecryptorInit /\ ExecutorInit
    /\ input_str \in Inputs
    /\ pc = "check_input"
    /\ name = ""
    /\ code = <<>>
    /\ decipher_script = <<>>
    /\ n_transform_script = <<>>
    /\ result = NotReturned
    /\ stages = <<>>

\* lib.py:15-21
CheckInput ==
    /\ pc = "check_input"
    /\ IF input_str.kind = "None"
       THEN /\ result' = return_error("Input string is null")
            /\ pc' = "done"
       ELSE IF input_str.kind # "str"
       THEN /\ result' = return_error("Invalid Input string")
            /\ pc' = "done"
       ELSE /\ pc' = "extract_tce"
            /\ UNCHANGED result
    /\ UNCHANGED <<input_str, name, code, decipher_script,
                   n_transform_script, stages>>
    /\ UNCHANGED <<decryptor_vars, executor_vars>>

\* ExtractTce with the exception swallowed: the next stage runs all the same
ExtractTce_swallowed ==
    /\ pc = "extract_tce"
    /\ stages' = Append(stages, "extract_tce_func")
    /\ LET etf == extract_tce_func(input_str.body)
       IN  /\ name' = etf.name
           /\ code' = etf.code
           /\ pc' = "extract_decipher"
           /\ UNCHANGED result
    /\ UNCHANGED <<input_str, decipher_script, n_transform_script>>
    /\ UNCHANGED <<decryptor_vars, executor_vars>>

\* lib.py:23-29
ExtractTce ==
    /\ pc = "extract_tce"
    /\ stages' = Append(stages, "extract_tce_func")
    /\ LET etf == extract_tce_func(input_str.body)
       IN  IF etf.ok
           THEN /\ name' = etf.name
                /\ code' = etf.code
                /\ pc' = "extract_decipher"
                /\ UNCHANGED result
           ELSE /\ result' = return_error(etf.error)
                /\ pc' = "done"
                /\ UNCHANGED <<name, code>>
    /\ UNCHANGED <<input_str, decipher_script, n_transform_script>>
    /\ UNCHANGED <<decryptor_vars, executor_vars>>

\* lib.py:31-35
ExtractDecipher ==
    /\ pc = "extract_decipher"
    /\ stages' = Append(stages, "extract_decipher_func")
    /\ LET r == extract_decipher_func(input_str.body, code)
       IN  IF r.ok
           THEN /\ decipher_script' = r.value
                /\ pc' = "extract_n_transform"
                /\ UNCHANGED result
           ELSE /\ result' = return_error(r.error)
                /\ pc' = "done"
                /\ UNCHANGED decipher_script
    /\ UNCHANGED <<input_str, name, code, n_transform_script>>
    /\ UNCHANGED <<decryptor_vars, executor_vars>>

\* lib.py:37-41
ExtractNTransform ==
    /\ pc = "extract_n_transform"
    /\ stages' = Append(stages, "extract_n_transform_func")
    /\ LET r == extract_n_transform_func(input_str.body, name, code)
       IN  IF r.ok
           THEN /\ n_transform_script' = r.value
                /\ pc' = "combine"
                /\ UNCHANGED result
           ELSE /\ result' = return_error(r.error)
                /\ pc' = "done"
                /\ UNCHANGED n_transform_script
    /\ UNCHANGED <<input_str, name, code, decipher_script>>
    /\ UNCHANGED <<decryptor_vars, executor_vars>>

\* lib.py:43-46
Combine ==
    /\ pc = "combine"
    /\ result' = [returned |-> TRUE, success |-> TRUE,
                  script |-> decipher_script \o n_transform_script,
                  error |-> ""]
    /\ pc' = "done"
    /\ UNCHANGED <<input_str, name, code, decipher_script,
                   n_transform_script, stages>>
    /\ UNCHANGED <<decryptor_vars, executor_vars>>

Next == CheckInput \/ ExtractTce \/ ExtractDecipher \/ ExtractNTransform
        \/ Combine

Spec == Init /\ [][Next]_vars

----------------------------------------------------------------------------
(* YouTubeDecryptor (standalone_decryptor.py:96-279): the player URL of the *)
(* watch page, the cached player code and the script extracted from it     *)

\* the one element of a singleton set; a value bound this way is computed
\* once, however often it is used
The(S) == CHOOSE x \in S : TRUE

\* extract_decode_script on a str (lib.py:21-46): the pair it returns
extract_decode_script(body) ==
    The({The({IF ~etf.ok THEN return_error(etf.error) ELSE
      The({IF ~d.ok THEN return_error(d.error) ELSE
        The({IF ~n.ok THEN return_error(n.error)
             ELSE [returned |-> TRUE, success |-> TRUE,
                   script |-> d.value \o n.value, error |-> ""]
             : n \in {extract_n_transform_func(b, etf.name, etf.code)}})
           : d \in {extract_decipher_func(b, etf.code)}})
         : etf \in {extract_tce_func(b)}})
       : b \in {body}})

\* extract_decode_script_simple (lib.py:77-85): the script, or ValueError
extract_decode_script_simple(javascript_code) ==
    The({IF r.success THEN Return(r.script) ELSE Raise(r.error)
         : r \in {extract_decode_script(javascript_code)}})

\* the players the site serves, and the URL of each
PlayerIds == {"aaa", "bbb", "ccc"}
PlayerPath(x, sep) ==
    <<sep, "s", sep, "player", sep, x, sep, "base.js">>
PlayerUrl(x) == "https://www.youtube.com/s/player/" \o x \o "/base.js"

\* the "jsUrl" values a watch page may hold: relative to the host, relative
\* to the scheme or absolute, with '/' written as '/' or as '\/'
JsUrls ==
    UNION {{PlayerPath(x, sep),
            <<sep, sep, "www.youtube.com">> \o PlayerPath(x, sep),
            <<"https:", sep, sep, "www.youtube.com">> \o PlayerPath(x, sep)} :
           x \in PlayerIds, sep \in {"/", "\\/"}}

\* a signature or n parameter with a lone surrogate, which the UTF-8
\* temporary file cannot hold
Surrogate == "\\udc80"

\* the formats of a video (standalone_decryptor.py:226-244): a plain url, a
\* signatureCipher with a signature s or with s empty, or neither key; n is
\* the n parameter of the url, None when the url holds no n= (a format
\* whose signature cannot be written never reaches its n parameter)
Format(shape, s, n) == [shape |-> shape, s |-> s, n |-> n]
Formats ==
    {Format("url", "", n) : n \in {None, "N", Surrogate}}
    \cup {Format("signatureCipher", s, n) : s \in {"", "ABC"}, n \in {None, "N"}}
    \cup {Format("signatureCipher", Surrogate, None),
          Format("unknown", "", None)}

\* what json.loads gives for ytInitialPlayerResponse: the formats and
\* adaptiveFormats of streamingData, in order (lines 218-219); a video with
\* several formats has plain urls and signatures without n parameter
Videos ==
    UNION {[1..k -> IF k <= 1 THEN Formats
                    ELSE {Format("url", "", None),
                          Format("signatureCipher", "ABC", None)}] :
           k \in 0..MaxFormats}

\* what a watch page holds after "var ytInitialPlayerResponse = ": nothing
\* the pattern of line 132 matches, text json.loads rejects, or the data of
\* a video
PageData ==
    {[found |-> FALSE, json |-> FALSE, video |-> <<>>],
     [found |-> TRUE, json |-> FALSE, video |-> <<>>]}
    \cup {[found |-> TRUE, json |-> TRUE, video |-> v] : v \in Videos}

\* player_url_match.group(1).replace('\\/', '/') and the two startswith
\* cases (standalone_decryptor.py:121-125)
NormalisePlayerUrl(js) ==
    LET u == [i \in DOMAIN js |-> IF js[i] = "\\/" THEN "/" ELSE js[i]]
    IN  IF u[1] = "/" /\ u[2] = "/" THEN "https:" \o Render(u)
        ELSE IF u[1] = "/" THEN "https://www.youtube.com" \o Render(u)
        ELSE Render(u)

\* response.text of a player URL: two players that extract to different
\* scripts, and one the extraction fails on
Served(url) ==
    CASE url = PlayerUrl("aaa") -> S_TBL \o S_SIG \o S_ACT \o S_N0
      [] url = PlayerUrl("bbb") ->
           S_TBL \o S_SIG \o S_ACT \o <<NH, SEMI, STMT, SEMI, NT, SEMI>>
      [] OTHER -> S_TBL \o S_JUNK

\* the fields of the object, those of its js_executor and the temporary
\* files on disk included, and what a call did: the fields after it, whether
\* it returned, the value returned or the exception raised, and the scripts
\* handed to the executor during the call
Self == [player_url |-> player_url, player_code |-> player_code,
         decrypt_script |-> decrypt_script, info_url |-> info_url,
         node_available |-> node_available, files |-> files,
         calls |-> calls]
Returns(s, v) == [self |-> s, ok |-> TRUE, value |-> v, scripts |-> {}]
Raises(s, e)  == [self |-> s, ok |-> FALSE, value |-> e, scripts |-> {}]

\* the text JavaScriptExecutor.decrypt_signature and decrypt_n_parameter
\* build (standalone_decryptor.py:66-76, 82-92)
JsCode(script, func, arg) ==
    <<"\n        ">> \o script
    \o <<"\n        \n        try {\n            const result = "
            \o func \o "('",
         arg,
         "');\n            console.log(result);\n        } catch (error) {\n"
            \o "            console.error('Error:', error.message);\n"
            \o "            process.exit(1);\n        }\n        ">>

\* f.write(js_code) encodes the text as UTF-8 (line 37)
Encodable(c) == \A i \in DOMAIN c : c[i] # Surrogate

\* what subprocess.run does (lines 40-45): the exit code of node,
\* TimeoutExpired, or FileNotFoundError when node is not on PATH any more
RunOutcomes == {"exit 0", "exit 1", "TimeoutExpired", "FileNotFoundError"}

\* execute_js as one call (standalone_decryptor.py:30-62): the file of call
\* k is named k; it stays on disk when f.write raises (temp_file is not
\* bound yet) and when node times out (lines 54-55 do not unlink); the value
\* returned is result.stdout.strip()
execute_js(s, text) ==
    LET called == [s EXCEPT !.calls = @ + 1]
        made   == [called EXCEPT !.files = @ \cup {called.calls}]
    IN  IF ~s.node_available
        THEN {Raises(called, "Node.js is not available. Please install Node.js to execute JavaScript.")}
        ELSE {Raises(called, "FileNotFoundError")}
             \cup IF ~Encodable(text)
                  THEN {Raises(made, "UnicodeEncodeError")}
                  ELSE {CASE o = "exit 0" -> Returns(called, "decrypted")
                          [] o = "exit 1" ->
                               Raises(called, "JavaScript execution failed: "
                                              \o "Error: <result.stderr>\n")
                          [] o = "TimeoutExpired" ->
                               Raises(made, "JavaScript execution timed out after 30 seconds")
                          [] OTHER -> Raises(called, o)
                        : o \in RunOutcomes}

\* JavaScriptExecutor.decrypt_signature (standalone_decryptor.py:64-78)
js_decrypt_signature(s, script, signature) ==
    {[o EXCEPT !.scripts = {script}] :
     o \in execute_js(s, JsCode(script, "DisTubeDecipherFunc", signature))}

\* JavaScriptExecutor.decrypt_n_parameter (standalone_decryptor.py:80-94)
js_decrypt_n_parameter(s, script, n_param) ==
    {[o EXCEPT !.scripts = {script}] :
     o \in execute_js(s, JsCode(script, "DisTubeNTransformFunc", n_param))}

\* the rest of get_video_info once player_url is assigned
\* (standalone_decryptor.py:127-138)
VideoDataOf(t, data) ==
    IF ~data.found
    THEN Raises(t, "Could not find ytInitialPlayerResponse")
    ELSE IF ~data.json
    THEN Raises(t, "JSONDecodeError")
    ELSE Returns([t EXCEPT !.info_url = t.player_url], data.video)

\* get_video_info (standalone_decryptor.py:109-142): the request fails, or
\* the page has no jsUrl, or player_url is assigned and the video data is
\* looked for
get_video_info(s) ==
    {Raises(s, "HTTPError"), Raises(s, "Could not find player URL")}
    \cup UNION {{VideoDataOf(t, data) : data \in PageData}
               : t \in {[s EXCEPT !.player_url = NormalisePlayerUrl(js)]
                        : js \in JsUrls}}

\* get_player_code (standalone_decryptor.py:144-163)
get_player_code(s) ==
    IF s.player_code # None /\ s.player_url # None
    THEN {Returns(s, s.player_code)}
    ELSE IF s.player_url = None
    THEN {Raises(s, "Player URL not found. Call get_video_info first.")}
    ELSE {Raises(s, "HTTPError"),
          Returns([s EXCEPT !.player_code = Served(s.player_url)],
                  Served(s.player_url))}

\* sig.py and lib.py applied to the cached code
\* (standalone_decryptor.py:170-179)
ExtractFromCache(s) ==
    {IF r.ok
     THEN Returns([s EXCEPT !.decrypt_script = r.value], r.value)
     ELSE Raises(s, r.error)
     : r \in {extract_decode_script_simple(c) : c \in {s.player_code}}}

\* extract_decrypt_functions (standalone_decryptor.py:165-179)
extract_decrypt_functions(s) ==
    IF s.player_code = None
    THEN UNION {IF o.ok THEN ExtractFromCache(o.self) ELSE {o} :
                o \in get_player_code(s)}
    ELSE ExtractFromCache(s)

\* decrypt_signature (standalone_decryptor.py:181-193): the executor's
\* result, or whatever it raises
decrypt_signature(s, signature) ==
    IF s.decrypt_script = None
    THEN {Raises(s, "Decrypt functions not setup. Call extract_decrypt_functions first.")}
    ELSE js_decrypt_signature(s, s.decrypt_script, signature)

\* decrypt_n_parameter (standalone_decryptor.py:195-207)
decrypt_n_parameter(s, n_param) ==
    IF s.decrypt_script = None
    THEN {Raises(s, "Decrypt functions not setup. Call extract_decrypt_functions first.")}
    ELSE js_decrypt_n_parameter(s, s.decrypt_script, n_param)

\* what the loop does with one format: the entries it appends (one or
\* none); an entry is the decrypted_url of lines 227-252, the url of the
\* format with the decrypted signature added and the n parameter replaced,
\* where it has them
Appended(o, entries) ==
    [self |-> o.self, entries |-> entries, scripts |-> o.scripts]

\* the n parameter of a format whose url is known (lines 247-252, 270);
\* d is the outcome of the step that gave the url
HandleNParameter(d, fmt) ==
    IF fmt.n = None
    THEN {Appended(d, <<[sig |-> d.value, n |-> None]>>)}
    ELSE {IF e.ok THEN Appended(e, <<[sig |-> d.value, n |-> e.value]>>)
          ELSE Appended(e, <<>>)
          : e \in decrypt_n_parameter(d.self, fmt.n)}

\* one pass of the loop body (standalone_decryptor.py:224-274): a format
\* whose decryption raises is skipped
ProcessFormat(s, fmt) ==
    IF fmt.shape = "unknown" THEN {Appended(Returns(s, ""), <<>>)}
    ELSE IF fmt.shape = "signatureCipher" /\ fmt.s # ""
    THEN UNION {IF d.ok THEN HandleNParameter(d, fmt)
                ELSE {Appended(d, <<>>)}
                : d \in decrypt_signature(s, fmt.s)}
    ELSE HandleNParameter(Returns(s, ""), fmt)

RECURSIVE ProcessFormats(_, _, _, _)
\* the format loop of get_video_formats (standalone_decryptor.py:221-276)
\* from its state s, with the entries appended so far
ProcessFormats(s, formats, decrypted_formats, scripts) ==
    IF formats = <<>>
    THEN {[self |-> s, ok |-> TRUE, value |-> decrypted_formats,
           scripts |-> scripts]}
    ELSE UNION {ProcessFormats(r.self, Tail(formats),
                               decrypted_formats \o r.entries,
                               scripts \cup r.scripts)
                : r \in ProcessFormat(s, Head(formats))}

\* get_video_formats (standalone_decryptor.py:209-279): the three set-up
\* calls, then the loop over the formats of the video
get_video_formats(s) ==
    UNION {
      {a \in infos : ~a.ok}
      \cup UNION {
             UNION {IF ~c.ok THEN {c}
                    ELSE UNION {ProcessFormats(c.self, a.value, <<>>, {})
                                : a \in {i \in infos : i.ok /\ i.self = t}}
                    : c \in UNION {IF ~b.ok THEN {b}
                                   ELSE extract_decrypt_functions(b.self)
                                   : b \in get_player_code(t)}}
             : t \in {i.self : i \in {a \in infos : a.ok}}}
      : infos \in {get_video_info(s)}}

\* one call of method op with outcome o; the calls of one run are bounded
Called(op, o) ==
    /\ o.self.calls <= MaxExecutions
    /\ player_url' = o.self.player_url
    /\ player_code' = o.self.player_code
    /\ decrypt_script' = o.self.decrypt_script
    /\ info_url' = o.self.info_url
    /\ files' = o.self.files
    /\ calls' = o.self.calls
    /\ last' = [op |-> op, ok |-> o.ok, value |-> o.value,
                scripts |-> o.scripts]
    /\ UNCHANGED <<node_available, js_pc, js_code, temp_file, returncode,
                   created>>
    /\ UNCHANGED extract_vars

InitDecryptor ==
    /\ DecryptorInit /\ ExecutorInit
    /\ input_str = [kind |-> "None", body |-> <<>>]
    /\ pc = "decryptor"
    /\ name = ""
    /\ code = <<>>
    /\ decipher_script = <<>>
    /\ n_transform_script = <<>>
    /\ result = NotReturned
    /\ stages = <<>>

GetVideoInfo == \E o \in get_video_info(Self) : Called("get_video_info", o)
GetPlayerCode == \E o \in get_player_code(Self) : Called("get_player_code", o)
ExtractDecryptFunctions ==
    \E o \in extract_decrypt_functions(Self) :
        Called("extract_decrypt_functions", o)
DecryptSignature ==
    \E signature \in {"ABC", Surrogate} :
        \E o \in decrypt_signature(Self, signature) :
            Called("decrypt_signature", o)
DecryptNParameter ==
    \E n_param \in {"N", Surrogate} :
        \E o \in decrypt_n_parameter(Self, n_param) :
            Called("decrypt_n_parameter", o)
GetVideoFormats ==
    \E o \in get_video_formats(Self) : Called("get_video_formats", o)

NextDecryptor ==
    \/ GetVideoInfo \/ GetPlayerCode \/ ExtractDecryptFunctions
    \/ DecryptSignature \/ DecryptNParameter \/ GetVideoFormats

SpecDecryptor == InitDecryptor /\ [][NextDecryptor]_vars

----------------------------------------------------------------------------
(* JavaScriptExecutor.execute_js (standalone_decryptor.py:30-62), one step *)
(* per statement that can raise; a temporary file is named by the number   *)
(* of the call that created it                                             *)

\* scripts passed to execute_js: text the UTF-8 file can hold, and text with
\* a lone surrogate, which f.write cannot encode
JsCodes == {<<"console.log(1)">>, <<"console.log('", Surrogate, "')">>}

InitExecutor ==
    /\ DecryptorInit /\ ExecutorInit
    /\ input_str = [kind |-> "None", body |-> <<>>]
    /\ pc = "executor"
    /\ name = ""
    /\ code = <<>>
    /\ decipher_script = <<>>
    /\ n_transform_script = <<>>
    /\ result = NotReturned
    /\ stages = <<>>

\* the call, and the node_available check (lines 30-33)
ExecuteJs ==
    /\ js_pc \in {"idle", "returned", "raised"}
    /\ calls < MaxCalls
    /\ \E c \in JsCodes : js_code' = c
    /\ calls' = calls + 1
    /\ temp_file' = NoFile
    /\ created' = NoFile
    /\ returncode' = 0
    /\ js_pc' = IF node_available THEN "create" ELSE "raised"
    /\ UNCHANGED <<node_available, files>>
    /\ UNCHANGED <<extract_vars, decryptor_vars>>

\* tempfile.NamedTemporaryFile(..., delete=False) (line 36)
CreateTempFile ==
    /\ js_pc = "create"
    /\ \/ /\ files' = files \cup {calls}
          /\ created' = calls
          /\ js_pc' = "write"
       \/ /\ js_pc' = "except_exception"
          /\ UNCHANGED <<files, created>>
    /\ UNCHANGED <<node_available, js_code, temp_file, returncode, calls>>
    /\ UNCHANGED <<extract_vars, decryptor_vars>>

\* f.write(js_code); temp_file = f.name (lines 37-38)
WriteCode ==
    /\ js_pc = "write"
    /\ IF Encodable(js_code)
       THEN /\ temp_file' = created
            /\ js_pc' = "run"
       ELSE /\ js_pc' = "except_exception"
            /\ UNCHANGED temp_file
    /\ UNCHANGED <<node_available, js_code, returncode, created, files, calls>>
    /\ UNCHANGED <<extract_vars, decryptor_vars>>

\* subprocess.run(['node', temp_file], ..., timeout=timeout) (lines 40-45)
RunNode ==
    /\ js_pc = "run"
    /\ \E o \in RunOutcomes :
         /\ returncode' = IF o = "exit 1" THEN 1 ELSE 0
         /\ js_pc' = CASE o = "TimeoutExpired" -> "except_timeout"
                       [] o = "FileNotFoundError" -> "except_exception"
                       [] OTHER -> "unlink"
    /\ UNCHANGED <<node_available, js_code, temp_file, created, files, calls>>
    /\ UNCHANGED <<extract_vars, decryptor_vars>>

\* os.unlink(temp_file) (line 47)
Unlink ==
    /\ js_pc = "unlink"
    /\ files' = files \ {temp_file}
    /\ js_pc' = "check"
    /\ UNCHANGED <<node_available, js_code, temp_file, returncode, created,
                   calls>>
    /\ UNCHANGED <<extract_vars, decryptor_vars>>

\* the return code check and the return (lines 49-52); the RuntimeError is
\* raised inside the try
CheckReturnCode ==
    /\ js_pc = "check"
    /\ js_pc' = IF returncode # 0 THEN "except_exception" ELSE "returned"
    /\ UNCHANGED <<node_available, js_code, temp_file, returncode, created,
                   files, calls>>
    /\ UNCHANGED <<extract_vars, decryptor_vars>>

\* except subprocess.TimeoutExpired: raise RuntimeError (lines 54-55)
ExceptTimeout ==
    /\ js_pc = "except_timeout"
    /\ js_pc' = "raised"
    /\ UNCHANGED <<node_available, js_code, temp_file, returncode, created,
                   files, calls>>
    /\ UNCHANGED <<extract_vars, decryptor_vars>>

\* except Exception: unlink temp_file if the local is bound, raise
\* (lines 56-62)
ExceptException ==
    /\ js_pc = "except_exception"
    /\ files' = IF temp_file # NoFile THEN files \ {temp_file} ELSE files
    /\ js_pc' = "raised"
    /\ UNCHANGED <<node_available, js_code, temp_file, returncode, created,
                   calls>>
    /\ UNCHANGED <<extract_vars, decryptor_vars>>

NextExecutor ==
    \/ ExecuteJs \/ CreateTempFile \/ WriteCode \/ RunNode \/ Unlink
    \/ CheckReturnCode \/ ExceptTimeout \/ ExceptException

SpecExecutor == InitExecutor /\ [][NextExecutor]_vars

----------------------------------------------------------------------------
(* Properties *)

\* number of occurrences of chunk c in t
Count(t, c) == Cardinality({i \in 1..Len(t) : t[i] = c})

IsStr    == input_str.kind = "str"
Bundle   == input_str.body
Returned == pc = "done"

AllStages == <<"extract_tce_func", "extract_decipher_func",
               "extract_n_transform_func">>

\* what each pattern finds in the bundle
TableMatch  == search(NEW_TCE_GLOBAL_VARS_REGEXP, Bundle)
SigMatch    == search(TCE_SIGN_FUNCTION_REGEXP, Bundle)
ActionMatch == search(TCE_SIGN_FUNCTION_ACTION_REGEXP, Bundle)
HelperMatch == search(HELPER_REGEXP, Bundle)
DriverMatch == search(DECIPHER_REGEXP, Bundle)
TceDriverMatch == search(FUNCTION_TCE_REGEXP, Bundle)
ModernNMatch   == search(TCE_N_FUNCTION_REGEXP, Bundle)

\* the stage has been called, and returned a fragment
DecipherRan  == Len(stages) >= 2
NTransformRan == Len(stages) >= 3
NTransformOk  == NTransformRan /\ n_transform_script # <<>>

\* C1: extract_decode_script calls the stages in the order table, decipher,
\* n-transform and stops at the first that raises: it returns
\* (True, decipher_script + n_transform_script) exactly when all three
\* returned, and otherwise (False, message of the first stage that raised),
\* with no later stage called and no fragment in the result.
C1_ShortCircuit ==
    (IsStr /\ Returned) =>
        LET etf == extract_tce_func(Bundle)
            d   == extract_decipher_func(Bundle, etf.code)
            n   == extract_n_transform_func(Bundle, etf.name, etf.code)
        IN  IF ~etf.ok
            THEN /\ result = return_error(etf.error)
                 /\ stages = SubSeq(AllStages, 1, 1)
            ELSE IF ~d.ok
            THEN /\ result = return_error(d.error)
                 /\ stages = SubSeq(AllStages, 1, 2)
            ELSE IF ~n.ok
            THEN /\ result = return_error(n.error)
                 /\ stages = AllStages
            ELSE /\ result = [returned |-> TRUE, success |-> TRUE,
                              script |-> d.value \o n.value, error |-> ""]
                 /\ stages = AllStages

\* the n-transform stage raised after the decipher fragment was extracted
C1_Witness ==
    /\ IsStr /\ Returned /\ ~result.success
    /\ stages = AllStages
    /\ decipher_script # <<>>
    /\ result.script = <<>>

\* a legacy bundle: no table declaration, a helper object, a legacy driver
\* and a legacy n-transform (plain or table-wrapped)
LegacyNTransformPresent ==
    \/ search(N_TRANSFORM_TCE_REGEXP, Bundle).found
    \/ \E i \in 1..Len(Bundle) : Bundle[i] = NL /\ At(Bundle, i + 1) = SEMI
LegacyBundle ==
    /\ IsStr
    /\ ~TableMatch.found
    /\ HelperMatch.found
    /\ DriverMatch.found
    /\ LegacyNTransformPresent

\* C2: a bundle without a table declaration that holds a legacy helper
\* object, a legacy decipher driver and a legacy n-transform is extracted
\* successfully, stages 2 and 3 running after stage 1 found no table.
C2_LegacyBundleSucceeds ==
    (LegacyBundle /\ Returned) => (result.success /\ stages = AllStages)

\* the canonical names as the JavaScript executor calls them
\* (standalone_decryptor.py:69 and :84)
ExecutorDecipherCall   == "DisTubeDecipherFunc"
ExecutorNTransformCall == "DisTubeNTransformFunc"

\* the name a chunk binds with its "var <name>=", "" when it binds none
BoundName(c) ==
    CASE c \in TableDecls -> VarName(c)
      [] c = OPEN_Ob -> "Ob"
      [] c = OPEN_Xy -> "Xy"
      [] c = OPEN_DN -> "DisTubeNTransformFunc"
      [] c = JUNK -> "z"
      [] OTHER -> ""

\* the indices of script at which `fname` is bound by "var <fname>=": by
\* the binding an extractor writes, or inside text taken from the bundle
Bindings(script, fname) ==
    {i \in 1..Len(script) :
        \/ /\ script[i] = fname
           /\ At(script, i - 1) \in {"var ", "\nvar ", ";var "}
           /\ At(script, i + 1) = "="
        \/ BoundName(script[i]) = fname}

\* C3: a successful composite script binds the name the executor calls for
\* the decipher exactly once and the name it calls for the n-transform
\* exactly once, on every path the stages can take and whatever names the
\* bundle itself declares.
C3_CanonicalNamesOnce ==
    (Returned /\ result.success) =>
        /\ Cardinality(Bindings(result.script, ExecutorDecipherCall)) = 1
        /\ Cardinality(Bindings(result.script, ExecutorNTransformCall)) = 1

\* the table a chunk indexes, "" when it indexes none
TableUsed(c) ==
    IF c \in {SIGF, AE1, AE2, AE3, DECT, NH, NT, G3, NLT, NLTT}
    THEN "XX" ELSE ""
\* the tables the script's functions index
TablesUsed(script) ==
    {TableUsed(script[i]) : i \in 1..Len(script)} \ {""}
\* the tables the script declares
TablesDeclared(script) ==
    {VarName(script[i]) : i \in {j \in 1..Len(script) :
                                    script[j] \in TableDecls}}

\* C4: a successful composite script declares every table its decipher
\* driver or n-transform function indexes.
C4_SelfContained ==
    (Returned /\ result.success) =>
        TablesUsed(result.script) \subseteq TablesDeclared(result.script)

\* the fast-path fragment: binding, driver, action object, table declaration
FastPathFragment ==
    <<"var ", DECIPHER_FUNC_NAME, "=">>
        \o group0(Bundle, SigMatch) \o group0(Bundle, ActionMatch)
        \o code \o <<";">>

\* C5: when the table-driven driver and the three-method action object both
\* match, the decipher stage returns binding + driver + action object +
\* table declaration whatever else the bundle holds; when at most one of
\* them matches the helper object is required: without one the stage raises
\* the helper-object error, and a fragment it returns holds the helper.
C5_FastPath ==
    (IsStr /\ DecipherRan) =>
        IF SigMatch.found /\ ActionMatch.found
        THEN decipher_script = FastPathFragment
        ELSE /\ ~HelperMatch.found =>
                    /\ decipher_script = <<>>
                    /\ result = return_error(NoCaptures(HELPER_REGEXP))
             /\ decipher_script # <<>> =>
                    /\ HelperMatch.found
                    /\ decipher_script # FastPathFragment
                    /\ \E i \in 1..Len(decipher_script) :
                         /\ i + (HelperMatch.end - HelperMatch.start)
                                <= Len(decipher_script)
                         /\ SubSeq(decipher_script, i,
                                   i + (HelperMatch.end - HelperMatch.start))
                              = group0(Bundle, HelperMatch)

\* the fast path taken in a bundle that holds no helper object at all
C5_Witness ==
    /\ IsStr /\ DecipherRan
    /\ SigMatch.found /\ ActionMatch.found
    /\ ~HelperMatch.found /\ ~DriverMatch.found /\ ~TceDriverMatch.found
    /\ decipher_script = FastPathFragment

\* the decipher stage reaches the table-wrapped driver: no fast path, a
\* valid helper object, no legacy driver, a table-wrapped driver
TceDriverFallback ==
    /\ IsStr /\ DecipherRan
    /\ ~(SigMatch.found /\ ActionMatch.found)
    /\ HelperMatch.found
    /\ ~DriverMatch.found
    /\ TceDriverMatch.found
\* a global 'var' declaration of a split string or an array, as a statement
GlobalDeclarations ==
    {i \in 1..Len(Bundle) :
        /\ Bundle[i] \in TableDecls
        /\ (i = 1 \/ Bundle[i - 1] = SEMI)
        /\ At(Bundle, i + 1) = SEMI}

\* C6: when the decipher stage falls back to the table-wrapped driver, the
\* global declarations are required: with none in the bundle the stage
\* raises a global-declarations error, and with one its source is part of
\* the fragment returned.
C6_GlobalDeclarationsRequired ==
    TceDriverFallback =>
        IF GlobalDeclarations = {}
        THEN /\ decipher_script = <<>>
             /\ result = return_error(NoCaptures(TCE_GLOBAL_VARS_REGEXP))
        ELSE /\ decipher_script # <<>>
             /\ \E i \in GlobalDeclarations :
                    Count(decipher_script, Bundle[i]) >= 1

\* the guards left in a text: ';' guard ';'
GuardsIn(t) ==
    {i \in 1..Len(t) :
        /\ t[i] = SEMI
        /\ At(t, i + 1) \in ShortCircuitGuards(name)
        /\ At(t, i + 2) = SEMI}

\* the modern n-transform path was taken and returned
ModernPath == IsStr /\ NTransformOk /\ ModernNMatch.found

\* C7: after the modern path the n-transform fragment holds no short-circuit
\* guard, however many the matched function held.
C7_NoGuardLeft ==
    ModernPath => GuardsIn(n_transform_script) = {}

\* C8: guard removal is idempotent on the matched n-transform function:
\* removing the guard from the cleaned function changes nothing.
C8_RemovalIdempotent ==
    ModernPath =>
        LET f == group0(Bundle, ModernNMatch)
        IN  remove_short_circuit(name, remove_short_circuit(name, f))
              = remove_short_circuit(name, f)

\* C10: a bundle longer than the size ceiling is rejected before any
\* extractor is called.
C10_OversizedRejected ==
    (IsStr /\ Len(Bundle) > SizeCeiling) =>
        /\ stages = <<>>
        /\ Returned => ~result.success

\* the indices of script that hold a table declaration
DeclarationsAt(script) ==
    {i \in 1..Len(script) : script[i] \in TableDecls}

\* C11: in a successful composite script every table declaration comes
\* before the binding of the decipher name, the decipher binding comes before
\* the binding of the n-transform name, and the script ends with ';'.
C11_AssemblyOrder ==
    (Returned /\ result.success) =>
        /\ \A t \in DeclarationsAt(result.script) :
             \A d \in Bindings(result.script, DECIPHER_FUNC_NAME) : t < d
        /\ \A d \in Bindings(result.script, DECIPHER_FUNC_NAME) :
             \A n \in Bindings(result.script, N_TRANSFORM_FUNC_NAME) : d < n
        /\ result.script[Len(result.script)] = SEMI

\* the patterns whose shape a bundle is searched for
ShapePatterns ==
    {NEW_TCE_GLOBAL_VARS_REGEXP, TCE_SIGN_FUNCTION_REGEXP,
     TCE_SIGN_FUNCTION_ACTION_REGEXP, HELPER_REGEXP, DECIPHER_REGEXP,
     FUNCTION_TCE_REGEXP, TCE_GLOBAL_VARS_REGEXP, TCE_N_FUNCTION_REGEXP,
     N_TRANSFORM_REGEXP, N_TRANSFORM_TCE_REGEXP, FOR_PARAM_MATCHING}
NTransformPatterns ==
    {TCE_N_FUNCTION_REGEXP, N_TRANSFORM_REGEXP, N_TRANSFORM_TCE_REGEXP}

\* the shape pattern p describes occurs in the bundle; for the two patterns
\* that do not compile, the statement they are written for
ShapePresent(p) ==
    CASE p = N_TRANSFORM_REGEXP ->
           \E i \in 1..Len(Bundle) : Bundle[i] = NL /\ At(Bundle, i + 1) = SEMI
      [] p = TCE_GLOBAL_VARS_REGEXP -> GlobalDeclarations # {}
      [] OTHER -> search(p, Bundle).found

\* the returned failure is a "no match" message that names pattern p
FailureNames(p) ==
    /\ ~result.success
    /\ result.error \in {NoCaptures(p), NoFirstGroup(p), NoSecondGroup(p),
                         NoThirdGroup(p)}

\* C12: a failure returned for a string bundle names a pattern whose shape
\* is absent from the bundle: the table pattern when stage 1 failed, the
\* helper pattern when the decipher stage found no helper object, the
\* driver pattern when it found a helper but neither driver, and an
\* n-transform pattern when the bundle holds none of the three n-transform
\* shapes.
C12_FailureNamesAbsentShape ==
    (IsStr /\ Returned /\ ~result.success) =>
        /\ \E p \in ShapePatterns : FailureNames(p) /\ ~ShapePresent(p)
        /\ Len(stages) = 1 => FailureNames(NEW_TCE_GLOBAL_VARS_REGEXP)
        /\ (Len(stages) = 2 /\ ~HelperMatch.found)
              => FailureNames(HELPER_REGEXP)
        /\ (Len(stages) = 2 /\ HelperMatch.found
                /\ ~DriverMatch.found /\ ~TceDriverMatch.found)
              => FailureNames(FUNCTION_TCE_REGEXP)
        /\ (Len(stages) = 3 /\ \A p \in NTransformPatterns : ~ShapePresent(p))
              => \E p \in NTransformPatterns : FailureNames(p)

\* the fragment the modern n-transform path returns for the bundle
ModernFragment ==
    <<"var ", N_TRANSFORM_FUNC_NAME, "=">>
        \o remove_short_circuit(name, group0(Bundle, ModernNMatch))
        \o code \o <<";">>
\* chunk c is part of the fragment the n-transform stage returned
InNTransform(c) == Count(n_transform_script, c) >= 1

\* C13: the n-transform stage uses the first shape present in the order
\* modern, legacy, table-wrapped legacy: the modern fragment when the modern
\* shape is present; otherwise the legacy function, without global
\* declarations, when the legacy shape is present; otherwise the
\* table-wrapped function, with the global declarations before the binding,
\* when that shape is present; and it fails only when all three are absent.
C13_NTransformPriority ==
    (IsStr /\ NTransformRan) =>
        IF ModernNMatch.found
        THEN n_transform_script = ModernFragment
        ELSE IF ShapePresent(N_TRANSFORM_REGEXP)
        THEN /\ InNTransform(NL)
             /\ n_transform_script[1] = ";var "
        ELSE IF ShapePresent(N_TRANSFORM_TCE_REGEXP)
        THEN /\ InNTransform(NLT)
             /\ n_transform_script[1] \in TableDecls
        ELSE /\ n_transform_script = <<>>
             /\ ~result.success

\* guards of the form 'if(typeof ...) return <param>' whose returned
\* identifier is exactly the parameter
GuardsReturning(param_name) ==
    IF param_name = "a" THEN {G1, G2, G3} ELSE {}

RECURSIVE WithoutGuards(_, _)
\* f with every guard that returns param_name removed, ';' included
WithoutGuards(param_name, f) ==
    IF f = <<>> THEN <<>>
    ELSE IF Head(f) \in GuardsReturning(param_name)
    THEN WithoutGuards(param_name,
             IF At(f, 2) = SEMI THEN SubSeq(f, 3, Len(f)) ELSE Tail(f))
    ELSE <<Head(f)>> \o WithoutGuards(param_name, Tail(f))

\* the table-wrapped legacy n-transform function of the bundle
LegacyNMatch == search(N_TRANSFORM_TCE_REGEXP, Bundle)
LegacyNFunction == group0(Bundle, LegacyNMatch)

\* text u occurs in text t
Holds(t, u) ==
    \E i \in 1..(Len(t) - Len(u) + 1) : SubSeq(t, i, i + Len(u) - 1) = u

\* C14: when the bundle holds no modern n-transform but a legacy one whose
\* body has guards, the n-transform stage returns that function with
\* exactly the guards that return its own parameter taken out, each of them
\* whole, and every other statement as it was, a guard that returns another
\* identifier included.
C14_LegacyRemovalByParameter ==
    (/\ IsStr /\ NTransformRan
     /\ ~ModernNMatch.found /\ LegacyNMatch.found
     /\ \E i \in DOMAIN LegacyNFunction : LegacyNFunction[i] \in GuardStarts)
    => /\ NTransformOk
       /\ Holds(n_transform_script,
                WithoutGuards(ParamName(Head(LegacyNFunction)),
                              LegacyNFunction))

\* helper_match.group(2) for the bundle: the entries between the braces
HelperBody ==
    IF HelperMatch.found
    THEN SubSeq(Bundle, HelperMatch.start + 1, HelperMatch.end - 2)
    ELSE <<>>
NoOperationError ==
    "No captures found for input using regex 'PATTERN_REGEX_SET'"

\* C15: whenever the helper-object pattern matches the bundle, the body it
\* captures starts with an entry of one of the four operation shapes, one of
\* the four operation patterns matches that body, and no run returns the
\* PATTERN_REGEX_SET error.
C15_OperationRejectionUnreachable ==
    /\ result.error # NoOperationError
    /\ (IsStr /\ DecipherRan /\ HelperMatch.found) =>
          /\ HelperBody # <<>>
          /\ Head(HelperBody) \in HelperEntries
          /\ AnyPatternMatches(HelperBody)

\* the decipher stage validated a helper object that holds a single entry
C15_Witness ==
    /\ IsStr /\ DecipherRan
    /\ ~(SigMatch.found /\ ActionMatch.found)
    /\ HelperMatch.found
    /\ Len(HelperBody) = 1
    /\ result.error # NoCaptures(HELPER_REGEXP)

\* the script the extraction gives for the code a player URL serves
ScriptOf(url) == extract_decode_script_simple(Served(url)).value

\* the current player URL is the one set by the most recent get_video_info
\* that returned (a call that raises after it found the jsUrl sets the URL
\* too)
UrlFromReturnedCall == player_url # None /\ player_url = info_url

\* C16: when the current player URL was set by the most recent
\* get_video_info that returned, the code get_player_code returns is the code
\* of that URL, and every script decrypt_signature, decrypt_n_parameter or
\* get_video_formats hands to the executor was extracted from the code of
\* that URL.
C16_CacheBelongsToCurrentUrl ==
    UrlFromReturnedCall =>
        /\ (last.op = "get_player_code" /\ last.ok) =>
              last.value = Served(player_url)
        /\ last.op \in {"decrypt_signature", "decrypt_n_parameter",
                       "get_video_formats"}
              => \A script \in last.scripts : script = ScriptOf(player_url)

\* C17: when execute_js has returned or raised after it created its
\* temporary file, that file is no longer on disk.
C17_NoTempFileLeft ==
    (js_pc \in {"returned", "raised"} /\ created # NoFile) =>
        created \notin files

====
